---- MODULE Spec2Model ----
(***************************************************************************)
(* A model of settings.py of zk-ssg: the settings store (load_settings,    *)
(* save_settings, get_default_settings), the result filter (filter_items), *)
(* the validator (validate_settings) and the edit session                  *)
(* (show_settings_window).                                                 *)
(*                                                                         *)
(* Python text is modelled as a sequence of Unicode code points, a dict as *)
(* the sequence of its entries in insertion order, and settings.json as    *)
(* the sequence of JSON tokens json.dump writes and json.load reads.       *)
(***************************************************************************)
EXTENDS Integers, Sequences, FiniteSets, TLC

(***************************************************************************)
(* Bounds of the model.                                                    *)
(***************************************************************************)
\* the number of calls of the module's entry points in one run
MaxCalls == 2
\* the number of times window.read() returns in one edit session
MaxReads == 3
\* the number of entries of a mapping handed to filter_items / validate_settings
MaxLen == 3
\* the year datetime.now() reports
ThisYear == 2026

(***************************************************************************)
(* Python values.                                                          *)
(***************************************************************************)
PyStr(s) == [kind |-> "str", s |-> s, b |-> FALSE, n |-> 0]
PyBool(b) == [kind |-> "bool", s |-> <<>>, b |-> b, n |-> 0]
PyInt(n) == [kind |-> "int", s |-> <<>>, b |-> FALSE, n |-> n]
PyNone == [kind |-> "none", s |-> <<>>, b |-> FALSE, n |-> 0]

Entry(k, v) == [k |-> k, v |-> v]

\* a dict: its entries in insertion order, the keys distinct
Dict(items) == [kind |-> "dict", items |-> items, sc |-> PyNone]
\* a list: its elements, held as entries without a key
List(elems) == [kind |-> "list",
                items |-> [i \in 1..Len(elems) |-> Entry(PyNone, elems[i])],
                sc |-> PyNone]
\* a str, bool, int or PyNone standing alone
Scalar(x) == [kind |-> "scalar", items |-> <<>>, sc |-> x]

\* Python's truth value of an object (the test `not settings`)
Truthy(obj) ==
    IF obj.kind \in {"dict", "list"} THEN obj.items # <<>>
    ELSE CASE obj.sc.kind = "str" -> obj.sc.s # <<>>
           [] obj.sc.kind = "bool" -> obj.sc.b
           [] obj.sc.kind = "int" -> obj.sc.n # 0
           [] OTHER -> FALSE

Keys(items) == {items[i].k : i \in 1..Len(items)}

HasKey(items, k) == \E i \in 1..Len(items) : items[i].k = k

\* d[k] for a key the dict holds
Get(items, k) == items[CHOOSE i \in 1..Len(items) : items[i].k = k].v

\* d[k] = v: an existing key keeps its place, a new key goes last
DictSet(items, k, v) ==
    IF HasKey(items, k)
    THEN [i \in 1..Len(items) |->
             IF items[i].k = k THEN Entry(k, v) ELSE items[i]]
    ELSE Append(items, Entry(k, v))

(***************************************************************************)
(* The schema's keys and the texts of the defaults, as code points.        *)
(***************************************************************************)
K_zettelkasten_path == <<122, 101, 116, 116, 101, 108, 107, 97, 115, 116, 101, 110, 32, 112, 97, 116, 104>>  \* "zettelkasten path"
K_site_path == <<115, 105, 116, 101, 32, 112, 97, 116, 104>>  \* "site path"
K_site_title == <<115, 105, 116, 101, 32, 116, 105, 116, 108, 101>>  \* "site title"
K_copyright_text == <<99, 111, 112, 121, 114, 105, 103, 104, 116, 32, 116, 101, 120, 116>>  \* "copyright text"
K_site_subfolder_name == <<115, 105, 116, 101, 32, 115, 117, 98, 102, 111, 108, 100, 101, 114, 32, 110, 97, 109, 101>>  \* "site subfolder name"
K_body_background_color == <<98, 111, 100, 121, 32, 98, 97, 99, 107, 103, 114, 111, 117, 110, 100, 32, 99, 111, 108, 111, 114>>  \* "body background color"
K_header_background_color == <<104, 101, 97, 100, 101, 114, 32, 98, 97, 99, 107, 103, 114, 111, 117, 110, 100, 32, 99, 111, 108, 111, 114>>  \* "header background color"
K_header_text_color == <<104, 101, 97, 100, 101, 114, 32, 116, 101, 120, 116, 32, 99, 111, 108, 111, 114>>  \* "header text color"
K_header_hover_color == <<104, 101, 97, 100, 101, 114, 32, 104, 111, 118, 101, 114, 32, 99, 111, 108, 111, 114>>  \* "header hover color"
K_body_link_color == <<98, 111, 100, 121, 32, 108, 105, 110, 107, 32, 99, 111, 108, 111, 114>>  \* "body link color"
K_body_hover_color == <<98, 111, 100, 121, 32, 104, 111, 118, 101, 114, 32, 99, 111, 108, 111, 114>>  \* "body hover color"
K_hide_tags == <<104, 105, 100, 101, 32, 116, 97, 103, 115>>  \* "hide tags"
K_hide_chrono_index_dates == <<104, 105, 100, 101, 32, 99, 104, 114, 111, 110, 111, 32, 105, 110, 100, 101, 120, 32, 100, 97, 116, 101, 115>>  \* "hide chrono index dates"

S_pages == <<112, 97, 103, 101, 115>>  \* "pages"
S_snow == <<35, 102, 102, 102, 97, 102, 97>>  \* "#fffafa"
S_lime_green == <<35, 56, 49, 98, 54, 50, 50>>  \* "#81b622"
S_yellow_green == <<35, 101, 99, 102, 56, 55, 102>>  \* "#ecf87f"
S_olive_green == <<35, 51, 100, 53, 53, 48, 99>>  \* "#3d550c"
S_green == <<35, 53, 57, 57, 56, 49, 97>>  \* "#59981a"
S_your_name == <<44, 32, 121, 111, 117, 114, 32, 110, 97, 109, 101>>  \* ", your name"

\* str(n) of a non-negative int: its decimal digits
RECURSIVE Digits(_)
Digits(n) == IF n < 10 THEN <<48 + n>> ELSE Append(Digits(n \div 10), 48 + (n % 10))

\* get_default_settings(), the clock reading this_year
get_default_settings(this_year) ==
    << Entry(PyStr(K_zettelkasten_path), PyStr(<<>>)),
       Entry(PyStr(K_site_path), PyStr(<<>>)),
       Entry(PyStr(K_site_title), PyStr(<<>>)),
       Entry(PyStr(K_copyright_text), PyStr(<<169, 32>> \o Digits(this_year) \o S_your_name)),
       Entry(PyStr(K_site_subfolder_name), PyStr(S_pages)),
       Entry(PyStr(K_body_background_color), PyStr(S_snow)),
       Entry(PyStr(K_header_background_color), PyStr(S_lime_green)),
       Entry(PyStr(K_header_text_color), PyStr(S_yellow_green)),
       Entry(PyStr(K_header_hover_color), PyStr(S_olive_green)),
       Entry(PyStr(K_body_link_color), PyStr(S_green)),
       Entry(PyStr(K_body_hover_color), PyStr(S_olive_green)),
       Entry(PyStr(K_hide_tags), PyBool(TRUE)),
       Entry(PyStr(K_hide_chrono_index_dates), PyBool(TRUE)) >>

(***************************************************************************)
(* The result filter and the validator.                                    *)
(***************************************************************************)
\* str.islower() of a one-character string, for the code points below 256
IsLower(c) == c \in (97..122) \cup {170, 181, 186} \cup (223..246) \cup (248..255)

\* filter_items with the test of the key's type turned around: a key that is
\* no str is copied as well
RECURSIVE FilterLoopKeepsIndices(_, _, _)
FilterLoopKeepsIndices(items, i, acc) ==
    IF i > Len(items) THEN [err |-> "none", val |-> Dict(acc)]
    ELSE LET key == items[i].k
             value == items[i].v
         IN  IF key.kind # "str"
             THEN FilterLoopKeepsIndices(items, i + 1, DictSet(acc, key, value))
             ELSE IF key.s = <<>>
                  THEN [err |-> "IndexError", val |-> Scalar(PyNone)]
                  ELSE IF IsLower(Head(key.s))
                       THEN FilterLoopKeepsIndices(items, i + 1, DictSet(acc, key, value))
                       ELSE FilterLoopKeepsIndices(items, i + 1, acc)

\* The loop of filter_items over the entries from position i on, new_settings
\* holding acc: a str key whose first character is lowercase is copied, and
\* key[0] of an empty str key raises IndexError.
RECURSIVE FilterLoop(_, _, _)
FilterLoop(items, i, acc) ==
    IF i > Len(items) THEN [err |-> "none", val |-> Dict(acc)]
    ELSE LET key == items[i].k
             value == items[i].v
         IN  IF key.kind = "str"
             THEN IF key.s = <<>>
                  THEN [err |-> "IndexError", val |-> Scalar(PyNone)]
                  ELSE IF IsLower(Head(key.s))
                       THEN FilterLoop(items, i + 1, DictSet(acc, key, value))
                       ELSE FilterLoop(items, i + 1, acc)
             ELSE FilterLoop(items, i + 1, acc)

\* filter_items(settings): settings.items() of an object that is no dict
\* (None, as window.read() gives for a closed window) raises AttributeError
filter_items(settings) ==
    IF settings.kind # "dict"
    THEN [err |-> "AttributeError", val |-> Scalar(PyNone)]
    ELSE FilterLoop(settings.items, 1, <<>>)

\* validate_settings with `return True` inside the loop: only the first
\* value is looked at
ValidateLoopFirstOnly(items, i) ==
    IF i > Len(items) THEN TRUE
    ELSE LET value == items[i].v
         IN  IF value.kind = "str" /\ value.s = <<>> THEN FALSE ELSE TRUE

\* validate_settings without the isinstance test: False fails like ""
RECURSIVE ValidateLoopNoTypeTest(_, _)
ValidateLoopNoTypeTest(items, i) ==
    IF i > Len(items) THEN TRUE
    ELSE LET value == items[i].v
         IN  IF (value.kind = "str" /\ value.s = <<>>)
                \/ (value.kind = "bool" /\ ~value.b)
             THEN FALSE
             ELSE ValidateLoopNoTypeTest(items, i + 1)

\* The loop of validate_settings over the values from position i on
RECURSIVE ValidateLoop(_, _)
ValidateLoop(items, i) ==
    IF i > Len(items) THEN TRUE
    ELSE LET value == items[i].v
         IN  IF value.kind = "str"
             THEN IF value.s = <<>> THEN FALSE ELSE ValidateLoop(items, i + 1)
             ELSE ValidateLoop(items, i + 1)

validate_settings(settings) == ValidateLoop(settings.items, 1)

(***************************************************************************)
(* JSON: json.dump(settings, file) and json.load(file), with the defaults  *)
(* of both (ensure_ascii, the separators ", " and ": ").  The text is held *)
(* as its tokens; a string token holds the escaped text between its quotes *)
(* and a number token its digits.                                          *)
(***************************************************************************)
Tok(t, c) == [t |-> t, c |-> c]

HexDigit(d) == IF d < 10 THEN 48 + d ELSE 87 + d

\* '\\u{0:04x}'.format(c)
Hex4(c) == << 92, 117, HexDigit((c \div 4096) % 16), HexDigit((c \div 256) % 16),
              HexDigit((c \div 16) % 16), HexDigit(c % 16) >>

\* the replacement json.encoder.py_encode_basestring_ascii makes of one character
EscapeChar(c) ==
    CASE c = 34 -> <<92, 34>>       \* '"'  -> '\"'
      [] c = 92 -> <<92, 92>>       \* '\\' -> '\\\\'
      [] c = 10 -> <<92, 110>>      \* '\n'
      [] c = 13 -> <<92, 114>>      \* '\r'
      [] c = 9 -> <<92, 116>>       \* '\t'
      [] c = 12 -> <<92, 102>>      \* '\f'
      [] c = 8 -> <<92, 98>>        \* '\b'
      [] OTHER -> IF c < 32 \/ c > 126 THEN Hex4(c) ELSE <<c>>

\* the replacements over the characters from position i on
RECURSIVE EscapeFrom(_, _)
EscapeFrom(s, i) ==
    IF i > Len(s) THEN <<>> ELSE EscapeChar(s[i]) \o EscapeFrom(s, i + 1)

\* py_encode_basestring_ascii: a text with nothing to replace is written as
\* it is
Escape(s) ==
    IF \A i \in 1..Len(s) : s[i] \in 32..126 /\ s[i] # 34 /\ s[i] # 92
    THEN s
    ELSE EscapeFrom(s, 1)

HexValue(h) ==
    CASE h \in 48..57 -> h - 48
      [] h \in 97..102 -> h - 87
      [] h \in 65..70 -> h - 55
      [] OTHER -> -1

\* json.decoder.py_scanstring over the text between the quotes, from position
\* i on, acc holding what is decoded so far: ok is FALSE at a bad escape; a
\* text without a backslash, a quote or a control character is taken whole
RECURSIVE Unescape(_, _, _)
Unescape(c, i, acc) ==
    IF i > Len(c) THEN [ok |-> TRUE, s |-> acc]
    ELSE IF i = 1 /\ \A j \in 1..Len(c) : c[j] >= 32 /\ c[j] # 34 /\ c[j] # 92
    THEN [ok |-> TRUE, s |-> c]
    ELSE IF c[i] = 34 \/ c[i] < 32 THEN [ok |-> FALSE, s |-> <<>>]
    ELSE IF c[i] # 92 THEN Unescape(c, i + 1, Append(acc, c[i]))
    ELSE IF i + 1 > Len(c) THEN [ok |-> FALSE, s |-> <<>>]
    ELSE CASE c[i + 1] = 34 -> Unescape(c, i + 2, Append(acc, 34))
           [] c[i + 1] = 92 -> Unescape(c, i + 2, Append(acc, 92))
           [] c[i + 1] = 47 -> Unescape(c, i + 2, Append(acc, 47))
           [] c[i + 1] = 110 -> Unescape(c, i + 2, Append(acc, 10))
           [] c[i + 1] = 114 -> Unescape(c, i + 2, Append(acc, 13))
           [] c[i + 1] = 116 -> Unescape(c, i + 2, Append(acc, 9))
           [] c[i + 1] = 102 -> Unescape(c, i + 2, Append(acc, 12))
           [] c[i + 1] = 98 -> Unescape(c, i + 2, Append(acc, 8))
           [] c[i + 1] = 117 ->
                IF i + 5 > Len(c) \/ \E j \in 2..5 : HexValue(c[i + j]) < 0
                THEN [ok |-> FALSE, s |-> <<>>]
                ELSE Unescape(c, i + 6,
                         Append(acc, 4096 * HexValue(c[i + 2]) + 256 * HexValue(c[i + 3])
                                     + 16 * HexValue(c[i + 4]) + HexValue(c[i + 5])))
           [] OTHER -> [ok |-> FALSE, s |-> <<>>]

\* int(digits)
RECURSIVE Number(_)
Number(c) == IF c = <<>> THEN 0 ELSE 10 * Number(SubSeq(c, 1, Len(c) - 1)) + (c[Len(c)] - 48)

\* a dict key as json.dump writes it: a str escaped, an int, a bool or None
\* turned into text first
DumpKey(k) ==
    CASE k.kind = "str" -> Tok("string", Escape(k.s))
      [] k.kind = "int" -> Tok("string", Digits(k.n))
      [] k.kind = "bool" -> Tok("string", IF k.b THEN <<116, 114, 117, 101>>
                                                 ELSE <<102, 97, 108, 115, 101>>)
      [] OTHER -> Tok("string", <<110, 117, 108, 108>>)

\* json.dump replaced by writing str(value) between quotes: a bool becomes text
DumpScalarAsText(v) ==
    CASE v.kind = "str" -> Tok("string", Escape(v.s))
      [] v.kind = "int" -> Tok("number", Digits(v.n))
      [] v.kind = "bool" -> Tok("string", IF v.b THEN <<84, 114, 117, 101>>
                                                 ELSE <<70, 97, 108, 115, 101>>)
      [] OTHER -> Tok("null", <<>>)

DumpScalar(v) ==
    CASE v.kind = "str" -> Tok("string", Escape(v.s))
      [] v.kind = "int" -> Tok("number", Digits(v.n))
      [] v.kind = "bool" -> Tok(IF v.b THEN "true" ELSE "false", <<>>)
      [] OTHER -> Tok("null", <<>>)

RECURSIVE DumpMembers(_, _)
DumpMembers(items, i) ==
    IF i > Len(items) THEN <<>>
    ELSE (IF i > 1 THEN <<Tok(",", <<>>)>> ELSE <<>>)
         \o <<DumpKey(items[i].k), Tok(":", <<>>), DumpScalar(items[i].v)>>
         \o DumpMembers(items, i + 1)

RECURSIVE DumpElements(_, _)
DumpElements(items, i) ==
    IF i > Len(items) THEN <<>>
    ELSE (IF i > 1 THEN <<Tok(",", <<>>)>> ELSE <<>>)
         \o <<DumpScalar(items[i].v)>> \o DumpElements(items, i + 1)

\* the text json.dump(obj, file) writes
json_dump(obj) ==
    CASE obj.kind = "dict" ->
            <<Tok("{", <<>>)>> \o DumpMembers(obj.items, 1) \o <<Tok("}", <<>>)>>
      [] obj.kind = "list" ->
            <<Tok("[", <<>>)>> \o DumpElements(obj.items, 1) \o <<Tok("]", <<>>)>>
      [] OTHER -> <<DumpScalar(obj.sc)>>

IsScalarTok(tok) ==
    \/ tok.t \in {"true", "false", "null", "number"}
    \/ tok.t = "string" /\ Unescape(tok.c, 1, <<>>).ok

LoadScalar(tok) ==
    CASE tok.t = "string" -> PyStr(Unescape(tok.c, 1, <<>>).s)
      [] tok.t = "number" -> PyInt(Number(tok.c))
      [] tok.t = "true" -> PyBool(TRUE)
      [] tok.t = "false" -> PyBool(FALSE)
      [] OTHER -> PyNone

JSONDecodeError == [err |-> "JSONDecodeError", val |-> Scalar(PyNone)]

\* the members of an object from token i on (a key is expected there), acc
\* the dict so far: a repeated key keeps its first place and its last value
RECURSIVE LoadMembers(_, _, _)
LoadMembers(text, i, acc) ==
    IF i + 3 > Len(text) THEN JSONDecodeError
    ELSE IF ~(text[i].t = "string" /\ IsScalarTok(text[i]) /\ text[i + 1].t = ":"
              /\ IsScalarTok(text[i + 2]))
    THEN JSONDecodeError
    ELSE LET next == DictSet(acc, LoadScalar(text[i]), LoadScalar(text[i + 2]))
         IN  CASE text[i + 3].t = "}" ->
                    IF i + 3 = Len(text) THEN [err |-> "none", val |-> Dict(next)]
                    ELSE JSONDecodeError
               [] text[i + 3].t = "," -> LoadMembers(text, i + 4, next)
               [] OTHER -> JSONDecodeError

RECURSIVE LoadElements(_, _, _)
LoadElements(text, i, acc) ==
    IF i + 1 > Len(text) THEN JSONDecodeError
    ELSE IF ~IsScalarTok(text[i]) THEN JSONDecodeError
    ELSE LET next == Append(acc, LoadScalar(text[i]))
         IN  CASE text[i + 1].t = "]" ->
                    IF i + 1 = Len(text) THEN [err |-> "none", val |-> List(next)]
                    ELSE JSONDecodeError
               [] text[i + 1].t = "," -> LoadElements(text, i + 2, next)
               [] OTHER -> JSONDecodeError

\* json.load(file) of a text whose objects and arrays hold no object or array
json_load(text) ==
    IF text = <<>> THEN JSONDecodeError
    ELSE CASE text[1].t = "{" ->
                IF Len(text) = 2 /\ text[2].t = "}" THEN [err |-> "none", val |-> Dict(<<>>)]
                ELSE LoadMembers(text, 2, <<>>)
           [] text[1].t = "[" ->
                IF Len(text) = 2 /\ text[2].t = "]" THEN [err |-> "none", val |-> List(<<>>)]
                ELSE LoadElements(text, 2, <<>>)
           [] OTHER ->
                IF Len(text) = 1 /\ IsScalarTok(text[1])
                THEN [err |-> "none", val |-> Scalar(LoadScalar(text[1]))]
                ELSE JSONDecodeError

(***************************************************************************)
(* The settings store.                                                     *)
(***************************************************************************)
NoFile == [exists |-> FALSE, text |-> <<>>]

FileOf(text) == [exists |-> TRUE, text |-> text]

\* What open("settings.json", "w") and the write after it can do:
\* "ok"; "denied", open raises PermissionError and the file is untouched;
\* "full", open has truncated the file and the write raises OSError.
WriteOutcomes == {"ok", "denied", "full"}

\* save_settings(settings) on the file f
save_settings(f, settings, io) ==
    CASE io = "ok" -> [err |-> "none", file |-> FileOf(json_dump(settings))]
      [] io = "denied" -> [err |-> "PermissionError", file |-> f]
      [] OTHER -> [err |-> "OSError", file |-> FileOf(<<>>)]

\* load_settings without `if not settings: raise FileNotFoundError`: an empty
\* value read from the file is returned
load_settings_returns_empty(f, fallback_option, this_year) ==
    LET parsed == json_load(f.text)
    IN  IF ~f.exists
        THEN CASE fallback_option = "default settings" ->
                    [go |-> "return", err |-> "none",
                     val |-> Dict(get_default_settings(this_year)), defaults |-> TRUE]
               [] fallback_option = "prompt user" ->
                    [go |-> "prompt", err |-> "none", val |-> Scalar(PyNone),
                     defaults |-> FALSE]
               [] OTHER ->
                    [go |-> "raise", err |-> "ValueError", val |-> Scalar(PyNone),
                     defaults |-> FALSE]
        ELSE IF parsed.err # "none"
        THEN [go |-> "raise", err |-> parsed.err, val |-> Scalar(PyNone),
              defaults |-> FALSE]
        ELSE [go |-> "return", err |-> "none", val |-> parsed.val, defaults |-> FALSE]

\* load_settings with `else: settings = get_default_settings()` in place of
\* `else: raise ValueError`
load_settings_defaults_for_any(f, fallback_option, this_year) ==
    LET parsed == json_load(f.text)
        fallback ==
            IF fallback_option = "prompt user"
            THEN [go |-> "prompt", err |-> "none", val |-> Scalar(PyNone),
                  defaults |-> FALSE]
            ELSE [go |-> "return", err |-> "none",
                  val |-> Dict(get_default_settings(this_year)), defaults |-> TRUE]
    IN  IF ~f.exists THEN fallback
        ELSE IF parsed.err # "none"
        THEN [go |-> "raise", err |-> parsed.err, val |-> Scalar(PyNone),
              defaults |-> FALSE]
        ELSE IF ~Truthy(parsed.val) THEN fallback
        ELSE [go |-> "return", err |-> "none", val |-> parsed.val, defaults |-> FALSE]

FallbackOptions == {"default settings", "prompt user", "bogus"}

\* load_settings(fallback_option) up to its call of show_settings_window:
\* go is "return" (val is returned), "raise" (err is raised) or "prompt" (the
\* fallback opens the settings menu); defaults tells whether
\* get_default_settings was called.
load_settings(f, fallback_option, this_year) ==
    LET parsed == json_load(f.text)
        fallback ==
            CASE fallback_option = "default settings" ->
                    [go |-> "return", err |-> "none",
                     val |-> Dict(get_default_settings(this_year)), defaults |-> TRUE]
              [] fallback_option = "prompt user" ->
                    [go |-> "prompt", err |-> "none", val |-> Scalar(PyNone),
                     defaults |-> FALSE]
              [] OTHER ->
                    [go |-> "raise", err |-> "ValueError", val |-> Scalar(PyNone),
                     defaults |-> FALSE]
    IN  IF ~f.exists THEN fallback
        ELSE IF parsed.err # "none"
        THEN [go |-> "raise", err |-> parsed.err, val |-> Scalar(PyNone),
              defaults |-> FALSE]
        ELSE IF ~Truthy(parsed.val) THEN fallback
        ELSE [go |-> "return", err |-> "none", val |-> parsed.val, defaults |-> FALSE]

(***************************************************************************)
(* The settings window.                                                    *)
(***************************************************************************)
\* the keys create_text_chooser is called with, which it adds when missing
TextChooserKeys == <<K_site_title, K_copyright_text, K_site_subfolder_name>>

\* the keys read as settings[name] by the folder choosers, the checkboxes and
\* the color choosers
RequiredKeys ==
    {K_site_path, K_zettelkasten_path, K_hide_tags, K_hide_chrono_index_dates,
     K_body_background_color, K_header_background_color, K_header_text_color,
     K_header_hover_color, K_body_link_color, K_body_hover_color}

\* create_text_chooser's `default_text = settings[name] = ""` for the text
\* keys from position i on
RECURSIVE AddTextKeys(_, _)
AddTextKeys(items, i) ==
    IF i > Len(TextChooserKeys) THEN items
    ELSE AddTextKeys(IF HasKey(items, PyStr(TextChooserKeys[i])) THEN items
                     ELSE DictSet(items, PyStr(TextChooserKeys[i]), PyStr(<<>>)),
                     i + 1)

\* create_settings_window(settings): the values the form presents, or the
\* error raised before sg.Window is reached
create_settings_window(settings) ==
    IF settings.kind # "dict"
    THEN [err |-> "UnboundLocalError", form |-> <<>>]
    ELSE LET filled == AddTextKeys(settings.items, 1)
         IN  IF \E k \in RequiredKeys : ~HasKey(filled, PyStr(k))
             THEN [err |-> "KeyError", form |-> <<>>]
             ELSE [err |-> "none", form |-> filled]

WIN_CLOSED == "WIN_CLOSED"

Events == {"save", "cancel", WIN_CLOSED}

K_Browse == <<66, 114, 111, 119, 115, 101>>  \* "Browse"
K_Browse0 == <<66, 114, 111, 119, 115, 101, 48>>  \* "Browse0"
S_general == <<103, 101, 110, 101, 114, 97, 108>>  \* "general"

\* what the user may type into a text field: nothing, or "a"
UserTexts == {<<>>, <<97>>}

\* The values window.read() returns for a form presenting f: one entry per
\* control in layout order, the site title, the two paths and the hide-tags
\* box as the user left them and the other controls as presented, with the
\* toolkit's own entries (the two Browse buttons, the tab group under key 0).
WindowValues(f, title, site, zk, tags) ==
    Dict(<< Entry(PyStr(K_site_title), PyStr(title)),
            Entry(PyStr(K_copyright_text), Get(f, PyStr(K_copyright_text))),
            Entry(PyStr(K_site_subfolder_name), Get(f, PyStr(K_site_subfolder_name))),
            Entry(PyStr(K_Browse), PyStr(<<>>)),
            Entry(PyStr(K_site_path), PyStr(site)),
            Entry(PyStr(K_Browse0), PyStr(<<>>)),
            Entry(PyStr(K_zettelkasten_path), PyStr(zk)),
            Entry(PyStr(K_hide_tags), PyBool(tags)),
            Entry(PyStr(K_hide_chrono_index_dates), Get(f, PyStr(K_hide_chrono_index_dates))),
            Entry(PyStr(K_body_background_color), Get(f, PyStr(K_body_background_color))),
            Entry(PyStr(K_header_background_color), Get(f, PyStr(K_header_background_color))),
            Entry(PyStr(K_header_text_color), Get(f, PyStr(K_header_text_color))),
            Entry(PyStr(K_header_hover_color), Get(f, PyStr(K_header_hover_color))),
            Entry(PyStr(K_body_link_color), Get(f, PyStr(K_body_link_color))),
            Entry(PyStr(K_body_hover_color), Get(f, PyStr(K_body_hover_color))),
            Entry(PyInt(0), PyStr(S_general)) >>)

\* show_settings_window(settings) up to the loop: the settings the window is
\* created with (the argument, or what load_settings gives when the argument
\* is missing or empty), or the error raised on the way
OpenSession(f, settings, this_year) ==
    LET src == IF Truthy(settings)
               THEN [go |-> "return", err |-> "none", val |-> settings,
                     defaults |-> FALSE]
               ELSE load_settings(f, "default settings", this_year)
        w == create_settings_window(src.val)
    IN  IF src.go = "raise"
        THEN [err |-> src.err, form |-> <<>>, defaults |-> src.defaults]
        ELSE [err |-> w.err, form |-> w.form, defaults |-> src.defaults]

\* show_settings_window with `if event != sg.WIN_CLOSED:` alone before
\* save_settings: "cancel" saves
SessionStepSavesOnCancel(f, ev, vals, io) ==
    LET filtered == filter_items(vals)
        new_settings == filtered.val
        written == save_settings(f, new_settings, io)
    IN  IF filtered.err # "none"
        THEN [go |-> "raise", err |-> filtered.err, val |-> Scalar(PyNone),
              file |-> f, popup |-> FALSE, closed |-> FALSE, wrote |-> FALSE]
        ELSE IF ~validate_settings(new_settings)
        THEN [go |-> "loop", err |-> "none", val |-> new_settings,
              file |-> f, popup |-> TRUE, closed |-> FALSE, wrote |-> FALSE]
        ELSE IF ev # WIN_CLOSED
        THEN IF written.err # "none"
             THEN [go |-> "raise", err |-> written.err, val |-> Scalar(PyNone),
                   file |-> written.file, popup |-> FALSE, closed |-> FALSE,
                   wrote |-> TRUE]
             ELSE [go |-> "return", err |-> "none", val |-> new_settings,
                   file |-> written.file, popup |-> FALSE, closed |-> TRUE,
                   wrote |-> TRUE]
        ELSE [go |-> "return", err |-> "none", val |-> new_settings,
              file |-> f, popup |-> FALSE, closed |-> TRUE, wrote |-> FALSE]

\* One pass of show_settings_window's loop after window.read() returned
\* (event, values), and what follows the loop when the values are valid:
\* go is "loop" (the notice is shown and the form is read again), "return"
\* (new_settings is returned) or "raise"; closed tells whether window.close()
\* was reached and wrote whether save_settings was called.
SessionStep(f, ev, vals, io) ==
    LET filtered == filter_items(vals)
        new_settings == filtered.val
        written == save_settings(f, new_settings, io)
    IN  IF filtered.err # "none"
        THEN [go |-> "raise", err |-> filtered.err, val |-> Scalar(PyNone),
              file |-> f, popup |-> FALSE, closed |-> FALSE, wrote |-> FALSE]
        ELSE IF ~validate_settings(new_settings)
        THEN [go |-> "loop", err |-> "none", val |-> new_settings,
              file |-> f, popup |-> TRUE, closed |-> FALSE, wrote |-> FALSE]
        ELSE IF ev # WIN_CLOSED /\ ev # "cancel"
        THEN IF written.err # "none"
             THEN [go |-> "raise", err |-> written.err, val |-> Scalar(PyNone),
                   file |-> written.file, popup |-> FALSE, closed |-> FALSE,
                   wrote |-> TRUE]
             ELSE [go |-> "return", err |-> "none", val |-> new_settings,
                   file |-> written.file, popup |-> FALSE, closed |-> TRUE,
                   wrote |-> TRUE]
        ELSE [go |-> "return", err |-> "none", val |-> new_settings,
              file |-> f, popup |-> FALSE, closed |-> TRUE, wrote |-> FALSE]

(***************************************************************************)
(* Inputs of the model.                                                    *)
(***************************************************************************)
\* a settings mapping conforming to the schema, in the order the form is laid
\* out, whose texts need every kind of JSON escape: a quote, a backslash, a
\* line break, the copyright sign, and the text "true" beside the bool
Sample ==
    << Entry(PyStr(K_site_title), PyStr(<<34, 97, 92>>)),
       Entry(PyStr(K_copyright_text), PyStr(<<169, 10>>)),
       Entry(PyStr(K_site_subfolder_name), PyStr(<<116, 114, 117, 101>>)),
       Entry(PyStr(K_site_path), PyStr(<<47, 115>>)),
       Entry(PyStr(K_zettelkasten_path), PyStr(<<47, 122>>)),
       Entry(PyStr(K_hide_tags), PyBool(FALSE)),
       Entry(PyStr(K_hide_chrono_index_dates), PyBool(TRUE)),
       Entry(PyStr(K_body_background_color), PyStr(S_snow)),
       Entry(PyStr(K_header_background_color), PyStr(S_lime_green)),
       Entry(PyStr(K_header_text_color), PyStr(S_yellow_green)),
       Entry(PyStr(K_header_hover_color), PyStr(S_olive_green)),
       Entry(PyStr(K_body_link_color), PyStr(S_green)),
       Entry(PyStr(K_body_hover_color), PyStr(S_olive_green)) >>

\* a mapping that lacks most of the schema's keys
Partial == << Entry(PyStr(K_site_title), PyStr(<<97>>)) >>

\* the mappings save_settings is called with
Mappings(this_year) ==
    {Dict(Sample), Dict(get_default_settings(this_year)), Dict(Partial), Dict(<<>>),
     Dict(<<Entry(PyInt(0), PyStr(S_general))>>)}

\* what show_settings_window is called with: no argument, or a mapping
ShowArguments == {Scalar(PyNone), Dict(<<>>), Dict(Sample), Dict(Partial)}

\* what settings.json may hold when the program starts: nothing, the empty
\* or falsy JSON values {}, [] and 0, a complete mapping, a partial one, the
\* list [1], and a file of zero bytes
InitFiles ==
    {NoFile, FileOf(json_dump(Dict(<<>>))), FileOf(json_dump(List(<<>>))),
     FileOf(json_dump(Scalar(PyInt(0)))), FileOf(json_dump(Dict(Sample))),
     FileOf(json_dump(Dict(Partial))), FileOf(json_dump(List(<<PyInt(1)>>))),
     FileOf(<<>>)}

(***************************************************************************)
(* The state.                                                              *)
(***************************************************************************)
VARIABLES
    file,       \* settings.json: whether it exists, and its text
    pc,         \* "idle", or "reading": show_settings_window waits in window.read()
    window,     \* the session's window: "none", "open" or "closed"
    form,       \* the settings create_settings_window was given
    event,      \* the event and the values of the window.read() that ended
    values,     \* the loop ("none" and None until then)
    notices,    \* the notices sg.popup has shown in the session
    ret,        \* the outcome of the last call: op is "pending" while it runs
    last,       \* history: the last call, and the file when it was made
    saved,      \* history: the mapping of the last save_settings that succeeded
    reads,      \* history: the returns of window.read() in the session
    blanks,     \* history: those of them with a blank text under a setting's key
    calls,      \* history: the calls made so far
    m,          \* the mapping filter_items and validate_settings are applied to
    r1,         \* filter_items(m)
    r2,         \* filter_items(filter_items(m))
    v,          \* validate_settings(m)
    step        \* what has been applied to m

vars == <<file, pc, window, form, event, values, notices, ret, last, saved,
          reads, blanks, calls, m, r1, r2, v, step>>

storeVars == <<file, pc, window, form, event, values, notices, ret, last,
               saved, reads, blanks, calls>>

pureVars == <<m, r1, r2, v, step>>

NoResult == [err |-> "none", val |-> Scalar(PyNone)]

NotSaved == [valid |-> FALSE, x |-> Scalar(PyNone)]

Outcome(op, err, val, session, defaults) ==
    [op |-> op, err |-> err, val |-> val, session |-> session, defaults |-> defaults]

Call(op, fb, arg) ==
    [op |-> op, fb |-> fb, arg |-> arg, file |-> file, saved |-> saved]

PureIdle ==
    /\ m = Dict(<<>>)
    /\ r1 = NoResult
    /\ r2 = NoResult
    /\ v = TRUE
    /\ step = "idle"

StoreInit ==
    /\ pc = "idle"
    /\ window = "none"
    /\ form = <<>>
    /\ event = "none"
    /\ values = Scalar(PyNone)
    /\ notices = 0
    /\ ret = Outcome("none", "none", Scalar(PyNone), FALSE, FALSE)
    /\ last = [op |-> "none", fb |-> "", arg |-> Scalar(PyNone), file |-> NoFile,
               saved |-> NotSaved]
    /\ saved = NotSaved
    /\ reads = 0
    /\ blanks = 0
    /\ calls = 0

Init ==
    /\ file \in InitFiles
    /\ StoreInit
    /\ PureIdle

\* the history of a write: the mapping written, none after a failed write
\* that truncated the file, the one before after a write that was denied
Saved(settings, err) ==
    CASE err = "none" -> [valid |-> TRUE, x |-> settings]
      [] err = "OSError" -> NotSaved
      [] OTHER -> saved

\* a session's variables before its window exists
NoSession ==
    /\ window' = "none"
    /\ form' = <<>>
    /\ event' = "none"
    /\ values' = Scalar(PyNone)
    /\ notices' = 0
    /\ reads' = 0
    /\ blanks' = 0

\* the call show_settings_window(settings) made by `op`, up to window.read()
Begin(op, fb, settings) ==
    LET o == OpenSession(file, settings, ThisYear)
    IN  /\ last' = Call(op, fb, settings)
        /\ calls' = calls + 1
        /\ event' = "none"
        /\ values' = Scalar(PyNone)
        /\ notices' = 0
        /\ reads' = 0
        /\ blanks' = 0
        /\ form' = o.form
        /\ IF o.err # "none"
           THEN /\ pc' = "idle"
                /\ window' = "none"
                /\ ret' = Outcome(op, o.err, Scalar(PyNone), FALSE, o.defaults)
           ELSE /\ pc' = "reading"
                /\ window' = "open"
                /\ ret' = Outcome("pending", "none", Scalar(PyNone), TRUE, o.defaults)
        /\ UNCHANGED <<file, saved>>

\* a caller calls save_settings(settings)
CallSave ==
    /\ pc = "idle"
    /\ calls < MaxCalls
    /\ \E settings \in Mappings(ThisYear), io \in WriteOutcomes :
          LET w == save_settings(file, settings, io)
          IN  /\ file' = w.file
              /\ saved' = Saved(settings, w.err)
              /\ ret' = Outcome("save", w.err, Scalar(PyNone), FALSE, FALSE)
              /\ last' = Call("save", "", settings)
    /\ calls' = calls + 1
    /\ NoSession
    /\ pc' = "idle"

\* a caller calls load_settings(fallback_option)
CallLoad ==
    /\ pc = "idle"
    /\ calls < MaxCalls
    /\ \E fb \in FallbackOptions :
          LET l == load_settings(file, fb, ThisYear)
          IN  IF l.go = "prompt"
              THEN Begin("load", fb, Scalar(PyNone))
              ELSE /\ ret' = Outcome("load", l.err, l.val, FALSE, l.defaults)
                   /\ last' = Call("load", fb, Scalar(PyNone))
                   /\ calls' = calls + 1
                   /\ NoSession
                   /\ pc' = "idle"
                   /\ UNCHANGED <<file, saved>>

\* a caller calls show_settings_window(settings), or show_settings_window()
CallShow ==
    /\ pc = "idle"
    /\ calls < MaxCalls
    /\ \E settings \in ShowArguments : Begin("show", "", settings)

\* a text of the values that filter_items keeps and validate_settings rejects
HasBlank(vals) ==
    /\ vals.kind = "dict"
    /\ \E i \in 1..Len(vals.items) :
          /\ vals.items[i].k.kind = "str"
          /\ vals.items[i].k.s # <<>>
          /\ IsLower(vals.items[i].k.s[1])
          /\ vals.items[i].v = PyStr(<<>>)

\* window.read() returns: the user pressed save or cancel or closed the
\* window (a closed window may give None for the values), and the loop runs
\* once; when the values are valid the session ends
Read ==
    /\ pc = "reading"
    /\ reads < MaxReads
    /\ \E ev \in Events, gone \in BOOLEAN, io \in WriteOutcomes,
          title \in UserTexts, site \in UserTexts, zk \in UserTexts, tags \in BOOLEAN :
          /\ gone => ev = WIN_CLOSED /\ title = <<>> /\ site = <<>> /\ zk = <<>> /\ tags
          /\ io # "ok" => ev = "save"
          /\ LET vals == IF gone THEN Scalar(PyNone)
                         ELSE WindowValues(form, title, site, zk, tags)
                 s == SessionStep(file, ev, vals, io)
             IN  /\ event' = IF s.go = "loop" THEN "none" ELSE ev
                 /\ values' = IF s.go = "loop" THEN Scalar(PyNone) ELSE vals
                 /\ reads' = reads + 1
                 /\ blanks' = IF HasBlank(vals) THEN blanks + 1 ELSE blanks
                 /\ notices' = IF s.popup THEN notices + 1 ELSE notices
                 /\ file' = s.file
                 /\ window' = IF s.closed THEN "closed" ELSE window
                 /\ pc' = IF s.go = "loop" THEN "reading" ELSE "idle"
                 /\ ret' = IF s.go = "loop" THEN ret
                           ELSE Outcome(last.op, s.err, s.val, TRUE, ret.defaults)
                 /\ saved' = IF s.wrote THEN Saved(s.val, s.err) ELSE saved
    /\ UNCHANGED <<form, last, calls>>

Next ==
    \/ (CallSave /\ UNCHANGED pureVars)
    \/ (CallLoad /\ UNCHANGED pureVars)
    \/ (CallShow /\ UNCHANGED pureVars)
    \/ (Read /\ UNCHANGED pureVars)

Spec == Init /\ [][Next]_vars

(***************************************************************************)
(* filter_items and validate_settings on their own: a mapping of at most   *)
(* MaxLen entries is drawn, and the functions are applied to it.           *)
(***************************************************************************)
\* keys: "", "a", "B", "1" and the index 0
PureKeys == {PyStr(<<>>), PyStr(<<97>>), PyStr(<<66>>), PyStr(<<49>>), PyInt(0)}

\* values: "", "x", True and False
PureValues == {PyStr(<<>>), PyStr(<<120>>), PyBool(TRUE), PyBool(FALSE)}

PureInputs ==
    {Dict(items) : items \in
        {s \in UNION {[1..n -> [k : PureKeys, v : PureValues]] : n \in 0..MaxLen} :
            \A i, j \in 1..Len(s) : i # j => s[i].k # s[j].k}}

PureInit ==
    /\ file = NoFile
    /\ StoreInit
    /\ m \in PureInputs
    /\ r1 = NoResult
    /\ r2 = NoResult
    /\ v = TRUE
    /\ step = "drawn"

\* new_settings = filter_items(m)
ApplyFilter ==
    /\ step = "drawn"
    /\ r1' = filter_items(m)
    /\ step' = "filtered"
    /\ UNCHANGED <<m, r2, v>>

\* filter_items(new_settings), when the first call returned
ApplyFilterAgain ==
    /\ step = "filtered"
    /\ r1.err = "none"
    /\ r2' = filter_items(r1.val)
    /\ step' = "refiltered"
    /\ UNCHANGED <<m, r1, v>>

\* validate_settings(m)
ApplyValidate ==
    /\ step = "drawn"
    /\ v' = validate_settings(m)
    /\ step' = "validated"
    /\ UNCHANGED <<m, r1, r2>>

PureNext ==
    \/ (ApplyFilter /\ UNCHANGED storeVars)
    \/ (ApplyFilterAgain /\ UNCHANGED storeVars)
    \/ (ApplyValidate /\ UNCHANGED storeVars)

SpecPure == PureInit /\ [][PureNext]_vars

(***************************************************************************)
(* What the claims are stated with.                                        *)
(***************************************************************************)
SchemaKeys ==
    {PyStr(K_zettelkasten_path), PyStr(K_site_path), PyStr(K_site_title),
     PyStr(K_copyright_text), PyStr(K_site_subfolder_name),
     PyStr(K_body_background_color), PyStr(K_header_background_color),
     PyStr(K_header_text_color), PyStr(K_header_hover_color),
     PyStr(K_body_link_color), PyStr(K_body_hover_color), PyStr(K_hide_tags),
     PyStr(K_hide_chrono_index_dates)}

\* a mapping with the schema's 13 keys, each once, and str or bool values
Conforms(obj) ==
    /\ obj.kind = "dict"
    /\ Len(obj.items) = Cardinality(SchemaKeys)
    /\ Keys(obj.items) = SchemaKeys
    /\ \A i \in 1..Len(obj.items) : obj.items[i].v.kind \in {"str", "bool"}

\* the key is a str that begins with a lowercase letter
LowerKeyed(e) == e.k.kind = "str" /\ e.k.s # <<>> /\ IsLower(e.k.s[1])

\* the entries with such keys, in their order
Kept(items) == SelectSeq(items, LowerKeyed)

\* the file is missing, or deserializes to an empty or falsy value
MissingOrEmpty(f) ==
    \/ ~f.exists
    \/ json_load(f.text).err = "none" /\ ~Truthy(json_load(f.text).val)

\* a session has run and ended: its window existed and the call is over
SessionEnded == ret.session /\ pc = "idle"

(***************************************************************************)
(* The claims.                                                             *)
(***************************************************************************)
\* C1: after save_settings(X) succeeded for a mapping X that conforms to the
\* schema, load_settings with either recognised fallback returns X, entry by
\* entry in X's order, opens no edit session and does not call
\* get_default_settings.
C1_RoundTrip ==
    (/\ last.op = "load"
     /\ last.fb \in {"default settings", "prompt user"}
     /\ last.saved.valid
     /\ Conforms(last.saved.x))
    => (/\ ret.op = "load"
        /\ ret.err = "none"
        /\ ret.val = last.saved.x
        /\ ~ret.session
        /\ ~ret.defaults
        /\ window = "none")

\* C1's case: the mapping with the escaped texts was saved and then loaded
\* with the "prompt user" fallback
C1_Witness ==
    /\ last.op = "load"
    /\ last.fb = "prompt user"
    /\ last.saved.valid
    /\ last.saved.x = Dict(Sample)
    /\ ret.op = "load"

\* C2: when the file is missing or deserializes to an empty or falsy value,
\* load_settings("default settings") returns get_default_settings(), opens
\* no edit session and leaves the file as it was.
C2_FallbackDefaults ==
    (/\ last.op = "load"
     /\ last.fb = "default settings"
     /\ MissingOrEmpty(last.file))
    => (/\ ret.op = "load"
        /\ ret.err = "none"
        /\ ret.val = Dict(get_default_settings(ThisYear))
        /\ ~ret.session
        /\ window = "none"
        /\ file = last.file)

\* C2's case: the file held {} when load_settings("default settings") ran
C2_Witness ==
    /\ last.op = "load"
    /\ last.fb = "default settings"
    /\ last.file = FileOf(<<Tok("{", <<>>), Tok("}", <<>>)>>)
    /\ ret.op = "load"

\* C3: when the file is missing or deserializes to an empty value,
\* load_settings with an unrecognised fallback raises ValueError at once: no
\* edit session is opened, nothing is read or retried, and the file is not
\* created or modified.
C3_InvalidFallback ==
    (/\ last.op = "load"
     /\ last.fb \notin {"default settings", "prompt user"}
     /\ MissingOrEmpty(last.file))
    => (/\ pc = "idle"
        /\ ret.op = "load"
        /\ ret.err = "ValueError"
        /\ ~ret.session
        /\ ~ret.defaults
        /\ window = "none"
        /\ reads = 0
        /\ notices = 0
        /\ file = last.file)

\* C3's case: no file existed when load_settings("bogus") ran
C3_Witness ==
    /\ last.op = "load"
    /\ last.fb = "bogus"
    /\ ~last.file.exists
    /\ ret.op = "load"

\* C4: a session that ends on "cancel" or on the window-close signal with
\* valid, non-blank values returns the filtered values of that submission and
\* leaves the file exactly as it was when the session started.
C4_CancelWithoutSave ==
    (/\ SessionEnded
     /\ event \in {"cancel", WIN_CLOSED}
     /\ values.kind = "dict"
     /\ ~HasBlank(values))
    => (/\ ret.err = "none"
        /\ ret.val = Dict(Kept(values.items))
        /\ file = last.file
        /\ saved = last.saved)

\* C4's case: a session over an existing file was cancelled with values that
\* differ from the file's
C4_Witness ==
    /\ SessionEnded
    /\ event = "cancel"
    /\ values.kind = "dict"
    /\ last.file.exists
    /\ ret.val # json_load(last.file.text).val
    /\ ret.val.items # <<>>

\* C5: in a session, every submission with a blank text is followed by the
\* notice, once, and by the form being read again, whatever its event;
\* nothing is written before the first submission without a blank; that
\* submission ends the session, so the notice was shown once per submission
\* before it; and when its event is "save" and the write succeeds, the file
\* holds its filtered values.
C5_BlankRetry ==
    ret.session
    => (/\ notices = blanks
        /\ (blanks = reads) <=> (pc = "reading")
        /\ pc = "reading" => window = "open" /\ file = last.file
        /\ pc = "idle" => blanks = reads - 1
        /\ (pc = "idle" /\ event = "save" /\ ret.err = "none")
              => (/\ file.exists
                  /\ json_load(file.text).err = "none"
                  /\ json_load(file.text).val = Dict(Kept(values.items))
                  /\ notices = reads - 1))

\* C5's case: two submissions with a blank, then a complete one that is saved
C5_Witness ==
    /\ SessionEnded
    /\ event = "save"
    /\ ret.err = "none"
    /\ reads = 3
    /\ notices = 2

\* C6: whatever the window returned (the schema's keys and the toolkit's own
\* keys beside them), the mapping a session has written to the file has
\* exactly the schema's 13 keys.
C6_OnlySchemaKeys ==
    (/\ SessionEnded
     /\ event = "save"
     /\ ret.err = "none")
    => (/\ file.exists
        /\ json_load(file.text).err = "none"
        /\ Conforms(json_load(file.text).val)
        /\ saved.valid
        /\ Keys(saved.x.items) = SchemaKeys)

\* C6's case: the values held the toolkit's keys 0 and "Browse", and were saved
C6_Witness ==
    /\ SessionEnded
    /\ event = "save"
    /\ ret.err = "none"
    /\ values.kind = "dict"
    /\ {PyInt(0), PyStr(K_Browse)} \subseteq Keys(values.items)
    /\ SchemaKeys \subseteq Keys(values.items)

\* C7: once the window was created, every way the session ends, an error
\* raised by filter_items or by save_settings included, has closed the window.
C7_WindowReleased == SessionEnded => window = "closed"

\* C8: show_settings_window called without settings, or with an empty mapping,
\* presents get_default_settings(), whatever settings.json holds.
C8_PresentsDefaults ==
    (/\ last.op = "show"
     /\ ~Truthy(last.arg)
     /\ window # "none")
    => form = get_default_settings(ThisYear)

\* C9: validate_settings returns False if and only if some value is the empty
\* str; bools, True or False, never fail it, and the empty mapping passes.
C9_ValidatorTotal ==
    step = "validated"
    => (v <=> ~\E i \in 1..Len(m.items) : m.items[i].v = PyStr(<<>>))

\* C9's case: a mapping that holds False and a non-empty text passes
C9_Witness ==
    /\ step = "validated"
    /\ v
    /\ \E i \in 1..Len(m.items) : m.items[i].v = PyBool(FALSE)
    /\ \E i \in 1..Len(m.items) : m.items[i].v = PyStr(<<120>>)

\* C10: for every raw mapping, filter_items returns a mapping, the same one
\* when applied to its own result: the entries of m whose key is a str that
\* begins with a lowercase letter, with their values, in m's order.
C10_FilterIdempotent ==
    /\ step \in {"filtered", "refiltered"}
          => r1.err = "none" /\ r1.val = Dict(Kept(m.items))
    /\ step = "refiltered" => r2 = r1

\* C10 on the mappings without an empty str key: there filter_items returns
\* the entries with lowercase-initial str keys, in order, and is idempotent
C10_OnNonEmptyKeys ==
    (\A i \in 1..Len(m.items) : m.items[i].k # PyStr(<<>>))
    => (/\ step \in {"filtered", "refiltered"}
              => r1.err = "none" /\ r1.val = Dict(Kept(m.items))
        /\ step = "refiltered" => r2 = r1)

====
